---- MODULE Spec2Model ----
(***************************************************************************)
(* Model of the workflow core of strong_agent_app:                         *)
(*   - ProjectContextManager      (src/agent/workflow/ProjectContext.ts)   *)
(*   - WorkflowOrchestrator       (src/agent/workflow/WorkflowOrchestrator)*)
(*   - runAgent/runAgentWithRetry (src/utils/agentRunner.ts)               *)
(* Error messages are sequences of text fragments; string concatenation is *)
(* \o and a regular-expression search is a search for a fragment.          *)
(***************************************************************************)
EXTENDS Integers, Sequences, FiniteSets, TLC

\* ------------------------------------------------------------------ bounds
\* largest maxIterations value a WorkflowConfig is given
MaxConfigIterations == 2
\* largest number of entries the error log may reach (failing inputs stop there)
MaxErrors == 1
\* saturation point of the per-stage execution counters
MaxExec == 4
\* largest retry bound handed to a direct runAgentWithRetry call
MaxRetries == 4
\* longest step list a client of ProjectContextManager builds
MaxSteps == 3
\* largest number of approval requests pending at once
MaxPending == 2
\* largest number of errors a client of ProjectContextManager logs
MaxLogged == 2
\* abandoned runner.run calls counted; the count saturates there
MaxAbandoned == 2
\* largest number of ProjectContextManager calls a client makes
MaxCalls == 6

\* ------------------------------------------------------- program constants
DefaultMaxIterations == 3
OrchestratorRetries == 2
BackoffBase == 1000
BackoffCap == 5000

\* an absent value (undefined / null) where a payload or a step is expected
Undefined == [kind |-> "undefined"]
\* an absent or empty message (both are falsy)
NoMessage == << >>

\* WorkflowStatus
PENDING == "pending"
IN_PROGRESS == "in_progress"
COMPLETED == "completed"
FAILED == "failed"
REQUIRES_APPROVAL == "requires_approval"

\* WorkflowStage
TRIAGE == "triage"
RESEARCH == "research"
ARCHITECTURE == "architecture"
IMPLEMENTATION == "implementation"
TESTING == "testing"
REVIEW == "review"
DEVOPS == "devops"
DOCUMENTATION == "documentation"

\* the workflow definition of initializeWorkflow; byConfig marks the steps
\* whose requiresApproval is config.requireApproval
workflowSteps ==
  << [stage |-> TRIAGE,         agentName |-> "Triage",      byConfig |-> FALSE],
     [stage |-> RESEARCH,       agentName |-> "Researcher",  byConfig |-> FALSE],
     [stage |-> ARCHITECTURE,   agentName |-> "Architect",   byConfig |-> TRUE],
     [stage |-> IMPLEMENTATION, agentName |-> "Implementer", byConfig |-> FALSE],
     [stage |-> TESTING,        agentName |-> "Tester",      byConfig |-> FALSE],
     [stage |-> REVIEW,         agentName |-> "Reviewer",    byConfig |-> FALSE],
     [stage |-> DEVOPS,         agentName |-> "DevOps",      byConfig |-> TRUE],
     [stage |-> DOCUMENTATION,  agentName |-> "Docs",        byConfig |-> FALSE] >>

Stages == { workflowSteps[i].stage : i \in 1..Len(workflowSteps) }

\* ------------------------------------------------ ProjectContextManager
\* ProjectContextManager.create; the result slots are absent (Undefined)
create ==
  [ currentStage         |-> "initial",
    status               |-> PENDING,
    workflow             |-> << >>,
    currentStepIndex     |-> 0,
    triageResult         |-> Undefined,
    researchResult       |-> Undefined,
    architecturePlan     |-> Undefined,
    implementationResult |-> Undefined,
    testReport           |-> Undefined,
    reviewReport         |-> Undefined,
    devopsPlan           |-> Undefined,
    docsUpdate           |-> Undefined,
    errors               |-> << >>,
    iterationCount       |-> 0,
    maxIterations        |-> DefaultMaxIterations,
    pendingApprovals     |-> << >> ]

\* index (1-based) of the first step with the given id, 0 when there is none
FindStep(ctx, stepId) ==
  IF \E i \in 1..Len(ctx.workflow) : ctx.workflow[i].id = stepId
  THEN CHOOSE i \in 1..Len(ctx.workflow) :
         /\ ctx.workflow[i].id = stepId
         /\ \A j \in 1..(i-1) : ctx.workflow[j].id # stepId
  ELSE 0

\* getCurrentStep: workflow[currentStepIndex] || null (the index is 0-based)
getCurrentStep(ctx) ==
  IF ctx.currentStepIndex + 1 \in 1..Len(ctx.workflow)
  THEN ctx.workflow[ctx.currentStepIndex + 1]
  ELSE Undefined

\* addWorkflowStep: the id is built from the current length of the list
addWorkflowStep(ctx, stage, agentName, requiresApproval) ==
  [ctx EXCEPT !.workflow = Append(@,
     [ id               |-> Len(ctx.workflow),
       stage            |-> stage,
       status           |-> PENDING,
       agentName        |-> agentName,
       requiresApproval |-> requiresApproval,
       approved         |-> FALSE,
       result           |-> Undefined,
       error            |-> NoMessage ])]

\* updateStepStatus: result and error are written only when truthy
updateStepStatus(ctx, stepId, status, result, error) ==
  LET i == FindStep(ctx, stepId) IN
  IF i = 0 THEN ctx
  ELSE [ctx EXCEPT !.workflow[i] =
         [@ EXCEPT !.status = status,
                   !.result = IF result # Undefined THEN result ELSE @,
                   !.error  = IF error # NoMessage THEN error ELSE @]]

\* variant: the cursor advances without looking at the length of the list
moveToNextStep_Unchecked(ctx) ==
  [ctx EXCEPT !.currentStepIndex = @ + 1]

\* variant: the cursor may advance from the last step to the end of the list
moveToNextStep_PastEnd(ctx) ==
  IF ctx.currentStepIndex < Len(ctx.workflow)
  THEN [ctx EXCEPT !.currentStepIndex = @ + 1]
  ELSE ctx

\* moveToNextStep: advances only when the cursor is before the last step
moveToNextStep(ctx) ==
  IF ctx.currentStepIndex < Len(ctx.workflow) - 1
  THEN [ctx EXCEPT !.currentStepIndex = @ + 1]
  ELSE ctx

\* moveToNextStep: the value it returns
moveToNextStepReturns(ctx) ==
  ctx.currentStepIndex < Len(ctx.workflow) - 1

\* variant: updateStepStatus assigns updatedAt outside its if (step) block
stampsUpdatedAt_Always(op, ctx, stepId) ==
  CASE op = "getCurrentStep"   -> FALSE
    [] op = "moveToNextStep"   -> moveToNextStepReturns(ctx)
    [] OTHER                   -> TRUE

\* TRUE iff the named method, called on ctx, assigns context.updatedAt
stampsUpdatedAt(op, ctx, stepId) ==
  CASE op = "getCurrentStep"   -> FALSE
    [] op = "updateStepStatus" -> FindStep(ctx, stepId) # 0
    [] op = "moveToNextStep"   -> moveToNextStepReturns(ctx)
    [] OTHER                   -> TRUE

\* variant: the new entry is put in front of the log
addError_Prepends(ctx, stage, error) ==
  [ctx EXCEPT !.errors = << [stage |-> stage, error |-> error] >> \o @]

addError(ctx, stage, error) ==
  [ctx EXCEPT !.errors = Append(@, [stage |-> stage, error |-> error])]

incrementIteration(ctx) ==
  [ctx EXCEPT !.iterationCount = @ + 1]

\* variant: the budget check admits one iteration too many
shouldContinueIterations_Inclusive(ctx) ==
  ctx.iterationCount <= ctx.maxIterations

shouldContinueIterations(ctx) ==
  ctx.iterationCount < ctx.maxIterations

RECURSIVE FilterApprovals(_, _)
FilterApprovals(approvals, stepId) ==
  IF approvals = << >> THEN << >>
  ELSE IF Head(approvals).stepId # stepId
       THEN << Head(approvals) >> \o FilterApprovals(Tail(approvals), stepId)
       ELSE FilterApprovals(Tail(approvals), stepId)

addApprovalRequest(ctx, stepId, message) ==
  [ctx EXCEPT !.pendingApprovals = Append(@, [stepId |-> stepId, message |-> message]),
              !.status = REQUIRES_APPROVAL]

\* variant: the run status is set back whether or not requests remain
approveStep_AlwaysResumes(ctx, stepId) ==
  LET pending == FilterApprovals(ctx.pendingApprovals, stepId)
      i       == FindStep(ctx, stepId)
      marked  == IF i = 0 THEN ctx.workflow
                 ELSE [ctx.workflow EXCEPT ![i].approved = TRUE]
  IN [ctx EXCEPT !.pendingApprovals = pending,
                 !.workflow = marked,
                 !.status = IN_PROGRESS]

approveStep(ctx, stepId) ==
  LET pending == FilterApprovals(ctx.pendingApprovals, stepId)
      i       == FindStep(ctx, stepId)
      marked  == IF i = 0 THEN ctx.workflow
                 ELSE [ctx.workflow EXCEPT ![i].approved = TRUE]
  IN [ctx EXCEPT !.pendingApprovals = pending,
                 !.workflow = marked,
                 !.status = IF pending = << >> THEN IN_PROGRESS ELSE @]

\* updateContext({slot: data}) of executeCurrentStep: the slot of the stage
StoreResult(ctx, stage, data) ==
  CASE stage = TRIAGE         -> [ctx EXCEPT !.triageResult = data]
    [] stage = RESEARCH       -> [ctx EXCEPT !.researchResult = data]
    [] stage = ARCHITECTURE   -> [ctx EXCEPT !.architecturePlan = data]
    [] stage = IMPLEMENTATION -> [ctx EXCEPT !.implementationResult = data]
    [] stage = TESTING        -> [ctx EXCEPT !.testReport = data]
    [] stage = REVIEW         -> [ctx EXCEPT !.reviewReport = data]
    [] stage = DEVOPS         -> [ctx EXCEPT !.devopsPlan = data]
    [] stage = DOCUMENTATION  -> [ctx EXCEPT !.docsUpdate = data]
    [] OTHER                  -> ctx

\* ------------------------------------------------------------ agentRunner
\* payloads an executor may deliver (finalOutput)
TestReport(failed) == [kind |-> "testReport", failed |-> failed]
ReviewReport(issues) == [kind |-> "reviewReport", issues |-> issues]
Output(stage) == [kind |-> "output", of |-> stage]

Outputs(stage) ==
  CASE stage = TESTING -> { TestReport(0), TestReport(1), Undefined }
    [] stage = REVIEW  -> { ReviewReport(<< "warning" >>),
                            ReviewReport(<< "warning", "error" >>) }
    [] OTHER           -> { Output(stage) }

\* errors an executor call may reject with: a plain error, an SDK error that
\* is not retried, and a plain error whose message names an operational fault
ExecutorErrors ==
  { [isError |-> TRUE, name |-> "Error", message |-> << "Temporary failure" >>],
    [isError |-> TRUE, name |-> "MaxTurnsExceededError", message |-> << "Max turns exceeded" >>],
    [isError |-> TRUE, name |-> "Error", message |-> << "authentication failed" >>] }

\* further SDK errors, offered to a direct runAgentWithRetry call
SdkErrors ==
  { [isError |-> TRUE, name |-> "ToolCallError", message |-> << "tool call failed" >>],
    [isError |-> TRUE, name |-> "GuardrailExecutionError", message |-> << "guardrail tripped" >>],
    [isError |-> TRUE, name |-> "ModelBehaviorError", message |-> << "unexpected model output" >>] }

\* values that are not Error instances, with String(value) as their message: a
\* thrown string, and a plain object that carries the name of an SDK error
NonErrorValues ==
  { [isError |-> FALSE, name |-> "", message |-> << "boom" >>],
    [isError |-> FALSE, name |-> "MaxTurnsExceededError", message |-> << "[object Object]" >>] }

\* the rejection of runner.run after options.signal was aborted
AbortError == [isError |-> TRUE, name |-> "AbortError",
               message |-> << "This operation was aborted" >>]

\* the rejection of the timeout promise of runAgent
TimeoutError == [isError |-> TRUE, name |-> "Error",
                 message |-> << "Agent execution timeout" >>]

\* the error getRunner throws before initialize() or after resetForTesting()
RunnerNotInitialized == [isError |-> TRUE, name |-> "Error",
                         message |-> << "Runner not initialized" >>]

\* variant: the name is matched without asking whether the value is an Error
categorizeAgentError_ByNameOnly(error) ==
  CASE error.name = "GuardrailExecutionError" ->
         [errorType |-> "GuardrailExecutionError", recoverable |-> TRUE]
    [] error.name = "MaxTurnsExceededError" ->
         [errorType |-> "MaxTurnsExceededError", recoverable |-> FALSE]
    [] error.name = "ModelBehaviorError" ->
         [errorType |-> "ModelBehaviorError", recoverable |-> TRUE]
    [] error.name = "ToolCallError" ->
         [errorType |-> "ToolCallError", recoverable |-> TRUE]
    [] OTHER ->
         [errorType |-> "UnknownError", recoverable |-> TRUE]

\* variant: an error of no known class is not retried
categorizeAgentError_FailFast(error) ==
  CASE error.isError /\ error.name = "GuardrailExecutionError" ->
         [errorType |-> "GuardrailExecutionError", recoverable |-> TRUE]
    [] error.isError /\ error.name = "MaxTurnsExceededError" ->
         [errorType |-> "MaxTurnsExceededError", recoverable |-> FALSE]
    [] error.isError /\ error.name = "ModelBehaviorError" ->
         [errorType |-> "ModelBehaviorError", recoverable |-> TRUE]
    [] error.isError /\ error.name = "ToolCallError" ->
         [errorType |-> "ToolCallError", recoverable |-> TRUE]
    [] OTHER ->
         [errorType |-> "UnknownError", recoverable |-> FALSE]

categorizeAgentError(error) ==
  CASE error.isError /\ error.name = "GuardrailExecutionError" ->
         [errorType |-> "GuardrailExecutionError", recoverable |-> TRUE]
    [] error.isError /\ error.name = "MaxTurnsExceededError" ->
         [errorType |-> "MaxTurnsExceededError", recoverable |-> FALSE]
    [] error.isError /\ error.name = "ModelBehaviorError" ->
         [errorType |-> "ModelBehaviorError", recoverable |-> TRUE]
    [] error.isError /\ error.name = "ToolCallError" ->
         [errorType |-> "ToolCallError", recoverable |-> TRUE]
    [] OTHER ->
         [errorType |-> "UnknownError", recoverable |-> TRUE]

\* the result runAgent builds when runner.run resolves
SuccessResult(data) ==
  [success |-> TRUE, data |-> data, error |-> NoMessage,
   errorType |-> "", recoverable |-> TRUE]

\* the result runAgent builds in its catch block
FailureResult(error) ==
  [success |-> FALSE, data |-> Undefined, error |-> error.message,
   errorType |-> categorizeAgentError(error).errorType,
   recoverable |-> categorizeAgentError(error).recoverable]

\* the result runAgentWithRetry builds after its loop
RetryExhausted(retryBound, last) ==
  [success |-> FALSE, data |-> Undefined,
   error |-> << "Failed after", ToString(retryBound), "retry attempts. Last error:" >> \o last,
   errorType |-> "RetryExhausted", recoverable |-> FALSE]

\* the result executeAgent builds in its catch block
UnexpectedError(error) ==
  [success |-> FALSE, data |-> Undefined, error |-> error.message,
   errorType |-> "UnexpectedError", recoverable |-> FALSE]

Min(a, b) == IF a < b THEN a ELSE b

Max(a, b) == IF a > b THEN a ELSE b

RECURSIVE Pow2(_)
Pow2(n) == IF n = 0 THEN 1 ELSE 2 * Pow2(n - 1)

\* variant: the delay doubles without a cap
backoffDelay_Uncapped(att) == BackoffBase * Pow2(att)

backoffDelay(att) == Min(BackoffBase * Pow2(att), BackoffCap)

\* variant: the last attempt is reported as exhausted whatever it returned
RetryStep_LastAttemptLost(result, att, retryBound) ==
  IF att >= retryBound
  THEN [do |-> "return", result |-> RetryExhausted(retryBound, result.error)]
  ELSE IF result.success THEN [do |-> "return", result |-> result]
  ELSE IF result.recoverable = FALSE THEN [do |-> "return", result |-> result]
  ELSE [do |-> "sleep", result |-> result]

\* variant: after the last attempt the attempt's own result is returned
RetryStep_NoExhaust(result, att, retryBound) ==
  IF result.success THEN [do |-> "return", result |-> result]
  ELSE IF result.recoverable = FALSE THEN [do |-> "return", result |-> result]
  ELSE IF att < retryBound THEN [do |-> "sleep", result |-> result]
  ELSE [do |-> "return", result |-> result]

\* variant: the recoverable flag of a failure is not looked at
RetryStep_RetriesAll(result, att, retryBound) ==
  IF result.success THEN [do |-> "return", result |-> result]
  ELSE IF att < retryBound THEN [do |-> "sleep", result |-> result]
  ELSE [do |-> "return", result |-> RetryExhausted(retryBound, result.error)]

\* the body of the for loop of runAgentWithRetry after runAgent returned
\* result: what the loop does next
RetryStep(result, att, retryBound) ==
  IF result.success THEN [do |-> "return", result |-> result]
  ELSE IF result.recoverable = FALSE THEN [do |-> "return", result |-> result]
  ELSE IF att < retryBound THEN [do |-> "sleep", result |-> result]
  ELSE [do |-> "return", result |-> RetryExhausted(retryBound, result.error)]

\* --------------------------------------------------- WorkflowOrchestrator
criticalPatterns ==
  { "authentication failed", "permission denied",
    "file system error", "network connection failed" }

\* variant: the patterns are matched against the whole message
isCriticalError_Anchored(message) ==
  Len(message) = 1 /\ message[1] \in criticalPatterns

isCriticalError(message) ==
  \E i \in 1..Len(message) : message[i] \in criticalPatterns

hasMoreSteps(ctx) == ctx.currentStepIndex < Len(ctx.workflow)

shouldIterateBasedOnResults(ctx) ==
  \/ /\ ctx.testReport.kind = "testReport"
     /\ ctx.testReport.failed > 0
  \/ /\ ctx.reviewReport.kind = "reviewReport"
     /\ \E i \in 1..Len(ctx.reviewReport.issues) : ctx.reviewReport.issues[i] = "error"

\* the index findIndex returns for the implementation step, -1 when absent
implementationStepIndex(ctx) ==
  IF \E i \in 1..Len(ctx.workflow) : ctx.workflow[i].stage = IMPLEMENTATION
  THEN (CHOOSE i \in 1..Len(ctx.workflow) :
          /\ ctx.workflow[i].stage = IMPLEMENTATION
          /\ \A j \in 1..(i-1) : ctx.workflow[j].stage # IMPLEMENTATION) - 1
  ELSE -1

\* variant: the rewind appends a fresh implementation step and moves onto it
handleIterationLoop_AddsStep(ctx) ==
  IF ~shouldContinueIterations(ctx) THEN ctx
  ELSE LET inc == incrementIteration(ctx)
           added == addWorkflowStep(inc, IMPLEMENTATION, "Implementer", FALSE)
       IN [added EXCEPT !.currentStepIndex = Len(inc.workflow)]

\* handleIterationLoop: one more iteration and the cursor back on the first
\* implementation step, unless the iteration budget is used up
handleIterationLoop(ctx) ==
  IF ~shouldContinueIterations(ctx) THEN ctx
  ELSE LET inc == incrementIteration(ctx)
           idx == implementationStepIndex(inc)
       IN IF idx >= 0 THEN [inc EXCEPT !.currentStepIndex = idx] ELSE inc

finalizeWorkflow(ctx) ==
  IF \A i \in 1..Len(ctx.workflow) : ctx.workflow[i].status = COMPLETED
  THEN [ctx EXCEPT !.status = COMPLETED, !.currentStage = "completed"]
  ELSE ctx

RECURSIVE AddSteps(_, _, _)
AddSteps(ctx, defs, requireApproval) ==
  IF defs = << >> THEN ctx
  ELSE AddSteps(addWorkflowStep(ctx, Head(defs).stage, Head(defs).agentName,
                                IF Head(defs).byConfig THEN requireApproval ELSE FALSE),
                Tail(defs), requireApproval)

initializeWorkflow(ctx, requireApproval) ==
  [AddSteps(ctx, workflowSteps, requireApproval)
     EXCEPT !.currentStage = TRIAGE, !.status = IN_PROGRESS]

DeclinedMessage == << "User approval declined" >>

CriticalMessage(stage, error) == << "Critical error in", stage >> \o error

\* executeWorkflow lines 165-171: the PDCA check, then the cursor advance
AdvanceOrIterate(ctx) ==
  IF shouldIterateBasedOnResults(ctx) THEN handleIterationLoop(ctx)
  ELSE moveToNextStep(ctx)

\* variant: a declined step is treated like an approved one
ResolveApproval_IgnoreDecline(ctx, stepId, approved) ==
  [ctx  |-> AdvanceOrIterate(IF approved THEN approveStep(ctx, stepId) ELSE ctx),
   left |-> FALSE]

\* variant: a declined step is marked failed but the loop goes on
ResolveApproval_Retry(ctx, stepId, approved) ==
  IF ~approved
  THEN [ctx  |-> updateStepStatus(ctx, stepId, FAILED, Undefined, DeclinedMessage),
        left |-> FALSE]
  ELSE [ctx  |-> AdvanceOrIterate(approveStep(ctx, stepId)),
        left |-> FALSE]

\* executeWorkflow lines 152-171, once the approval decision is known: the new
\* run state and whether the loop was left (the run is then finalized)
ResolveApproval(ctx, stepId, approved) ==
  IF ~approved
  THEN [ctx  |-> finalizeWorkflow(
                   updateStepStatus(ctx, stepId, FAILED, Undefined, DeclinedMessage)),
        left |-> TRUE]
  ELSE [ctx  |-> AdvanceOrIterate(approveStep(ctx, stepId)),
        left |-> FALSE]

\* variant: the caught error marks the step but is not logged
CatchStepError_NotLogged(ctx, step, message) ==
  LET marked == updateStepStatus(ctx, step.id, FAILED, Undefined, message)
  IN IF isCriticalError(message)
     THEN [ctx |-> finalizeWorkflow(marked), left |-> TRUE]
     ELSE [ctx |-> marked, left |-> FALSE]

\* variant: the loop is left after every caught error
CatchStepError_AlwaysLeaves(ctx, step, message) ==
  LET logged == addError(updateStepStatus(ctx, step.id, FAILED, Undefined, message),
                         step.stage, message)
  IN [ctx |-> finalizeWorkflow(logged), left |-> TRUE]

\* executeWorkflow lines 173-187: the catch block of the loop body
CatchStepError(ctx, step, message) ==
  LET logged == addError(updateStepStatus(ctx, step.id, FAILED, Undefined, message),
                         step.stage, message)
  IN IF isCriticalError(message)
     THEN [ctx |-> finalizeWorkflow(logged), left |-> TRUE]
     ELSE [ctx |-> logged, left |-> FALSE]

\* variant: the slot of the stage is written whatever the outcome of the call
RecordStepResult_StoresOnFailure(ctx, step, result) ==
  updateStepStatus(StoreResult(ctx, step.stage, result.data), step.id,
                   IF result.success THEN COMPLETED ELSE FAILED,
                   IF result.success THEN result.data ELSE Undefined,
                   IF result.success THEN NoMessage ELSE result.error)

\* executeCurrentStep lines 245-316: the slot and the step status after the
\* executor call returned result
RecordStepResult(ctx, step, result) ==
  IF result.success
  THEN updateStepStatus(StoreResult(ctx, step.stage, result.data),
                        step.id, COMPLETED, result.data, NoMessage)
  ELSE updateStepStatus(ctx, step.id, FAILED, Undefined, result.error)

\* ------------------------------------------------------------------ state
VARIABLES
  context,            \* the ProjectContext the orchestrator owns
  config,             \* WorkflowOrchestrator.config
  approvalHandler,    \* TRUE iff an approval handler was supplied
  runnerInitialized,  \* SharedRunnerManager.isInitialized && runner
  caller,             \* "workflow": executeWorkflow runs; "direct": a bare runAgentWithRetry call
  pc,                 \* position of the running async function
  retries,            \* retries argument of the current runAgentWithRetry call
  attempt,            \* loop variable of runAgentWithRetry
  lastError,          \* lastError of runAgentWithRetry
  agentResult,        \* the AgentRunResult the call returned
  slept,              \* backoff delays slept in the current call, in order
  invocations,        \* runner.run calls made by the current runAgentWithRetry call
  outcomes,           \* how each runner.run call of the current call settled
  raised,             \* the values the runner.run calls of the current call rejected with
  execCount,          \* executeCurrentStep runs per stage (saturating at MaxExec)
  handlerCalls,       \* ids of the steps the approval handler was invoked for
  declinedStep,       \* id of the step whose approval was declined, -1 if none
  nonRecoverableSeen, \* a non-recoverable, non-fatal stage failure reached the loop
  allOk,              \* no executor failure, decline or quality failure so far
  testHistory,        \* failed counts of the testing reports delivered, in order
  lastCall,           \* the last ProjectContextManager method a client called, and what it returned
  slowExecutor,       \* TRUE iff a runner.run call may outlast the timeout of runAgent
  abandoned           \* runner.run calls still in flight whose attempt the timeout ended

runVars == << context, config, approvalHandler >>
retryVars == << retries, attempt, lastError, agentResult, slept, invocations, outcomes,
               raised >>
histVars == << execCount, handlerCalls, declinedStep, nonRecoverableSeen, allOk, testHistory >>
vars == << context, config, approvalHandler, runnerInitialized, caller, pc,
           retries, attempt, lastError, agentResult, slept, invocations, outcomes, raised,
           execCount, handlerCalls, declinedStep, nonRecoverableSeen, allOk,
           testHistory, lastCall, slowExecutor, abandoned >>

\* no ProjectContextManager method was called from outside the orchestrator
NoCall == [op |-> "none", stepId |-> -1, returned |-> FALSE, step |-> Undefined,
           stamped |-> FALSE, seq |-> 0]

NoResult == [success |-> FALSE, data |-> Undefined, error |-> << "Unknown error" >>,
             errorType |-> "", recoverable |-> FALSE]

Inc(n) == Min(n + 1, MaxExec)

\* maxIterations of the run state: the value create() sets, or 1 set by the caller
RunMaxIterations == { 1, DefaultMaxIterations }

\* state shared by both entry points before anything ran
InitCommon ==
  /\ runnerInitialized \in BOOLEAN
  /\ attempt = 0
  /\ lastError = NoMessage
  /\ agentResult = NoResult
  /\ slept = << >>
  /\ invocations = 0
  /\ outcomes = << >>
  /\ raised = << >>
  /\ execCount = [s \in Stages |-> 0]
  /\ handlerCalls = {}
  /\ declinedStep = -1
  /\ nonRecoverableSeen = FALSE
  /\ allOk = TRUE
  /\ testHistory = << >>
  /\ lastCall = NoCall
  /\ abandoned = 0

\* new WorkflowOrchestrator(context, config, approvalHandler) on a context made
\* by create(), whose maxIterations the caller may have set
Init ==
  /\ InitCommon
  /\ slowExecutor = FALSE
  /\ caller = "workflow"
  /\ pc = "idle"
  /\ \E m \in RunMaxIterations : context = [create EXCEPT !.maxIterations = m]
  /\ \E ra \in BOOLEAN, aa \in BOOLEAN, m \in { 1, MaxConfigIterations } :
       config = [requireApproval |-> ra, autoApprove |-> aa, maxIterations |-> m]
  /\ approvalHandler \in BOOLEAN
  /\ retries = OrchestratorRetries

\* a direct call runAgentWithRetry(agent, input, retries)
RetryInit ==
  /\ InitCommon
  /\ slowExecutor = TRUE
  /\ caller = "direct"
  /\ pc = "attempt"
  /\ context = create
  /\ config = [requireApproval |-> FALSE, autoApprove |-> FALSE,
               maxIterations |-> DefaultMaxIterations]
  /\ approvalHandler = FALSE
  /\ retries \in 0..MaxRetries

\* new WorkflowOrchestrator(context, config, approvalHandler) with executors
\* that may take longer than the timeout executeAgent sets
SlowInit ==
  /\ InitCommon
  /\ slowExecutor = TRUE
  /\ caller = "workflow"
  /\ pc = "idle"
  /\ context = [create EXCEPT !.maxIterations = 1]
  /\ \E ra \in BOOLEAN, aa \in BOOLEAN :
       config = [requireApproval |-> ra, autoApprove |-> aa, maxIterations |-> 1]
  /\ approvalHandler \in BOOLEAN
  /\ retries = OrchestratorRetries

\* a client that calls the ProjectContextManager methods on a context made by
\* create()
ManagerInit ==
  /\ InitCommon
  /\ slowExecutor = FALSE
  /\ runnerInitialized
  /\ caller = "manager"
  /\ pc = "manager"
  /\ context = create
  /\ config = [requireApproval |-> FALSE, autoApprove |-> FALSE,
               maxIterations |-> DefaultMaxIterations]
  /\ approvalHandler = FALSE
  /\ retries = OrchestratorRetries

\* ---------------------------------------------------------------- actions
\* executeWorkflow up to the first evaluation of the loop condition
InitializeWorkflow ==
  /\ pc = "idle"
  /\ context' = initializeWorkflow(context, config.requireApproval)
  /\ pc' = "loop"
  /\ UNCHANGED << config, approvalHandler, runnerInitialized, caller, lastCall, slowExecutor, abandoned,
                  retryVars, histVars >>

\* the loop condition holds: executeCurrentStep starts and calls executeAgent,
\* which enters runAgentWithRetry(agent, input, 2, ...)
StartStep ==
  /\ pc = "loop"
  /\ hasMoreSteps(context) /\ shouldContinueIterations(context)
  /\ getCurrentStep(context) # Undefined
  /\ LET step == getCurrentStep(context) IN
       /\ context' = [context EXCEPT !.workflow[context.currentStepIndex + 1].status = IN_PROGRESS]
       /\ execCount' = [execCount EXCEPT ![step.stage] = Inc(@)]
  /\ pc' = "attempt"
  /\ UNCHANGED << config, approvalHandler, runnerInitialized, caller, lastCall, slowExecutor, abandoned,
                  retryVars,
                  handlerCalls, declinedStep, nonRecoverableSeen, allOk, testHistory >>

\* the loop condition fails: finalizeWorkflow, then executeWorkflow returns
ExitLoop ==
  /\ pc = "loop"
  /\ ~(hasMoreSteps(context) /\ shouldContinueIterations(context)
       /\ getCurrentStep(context) # Undefined)
  /\ context' = finalizeWorkflow(context)
  /\ pc' = "returned"
  /\ UNCHANGED << config, approvalHandler, runnerInitialized, caller, lastCall, slowExecutor, abandoned,
                  retryVars, histVars >>

\* the payloads the executor of the running call may deliver
CurrentOutputs ==
  IF caller = "workflow" THEN Outputs(getCurrentStep(context).stage)
  ELSE Outputs(TESTING) \cup Outputs(TRIAGE)

\* the errors the running call may fail with
CurrentErrors ==
  (IF caller = "workflow" THEN ExecutorErrors
   ELSE ExecutorErrors \cup SdkErrors \cup NonErrorValues \cup { AbortError })
  \cup (IF slowExecutor THEN { TimeoutError } ELSE {})

\* failing inputs are offered while the error log has room
MayFail == Len(context.errors) < MaxErrors

\* where runAgentWithRetry returns to
ReturnPc == IF caller = "workflow" THEN "stepResult" ELSE "retryReturned"

\* runAgent starts: getSharedRunner(), then runner.run(...) is called.
\* Without a runner the throw leaves runAgent and runAgentWithRetry; executeAgent
\* catches it, a direct caller receives it.
InvokeExecutor ==
  /\ pc = "attempt"
  /\ IF runnerInitialized
     THEN /\ invocations' = invocations + 1
          /\ pc' = "running"
          /\ UNCHANGED << agentResult, allOk >>
     ELSE /\ MayFail
          /\ invocations' = invocations
          /\ allOk' = FALSE
          /\ IF caller = "workflow"
             THEN /\ agentResult' = UnexpectedError(RunnerNotInitialized)
                  /\ pc' = "stepResult"
             ELSE /\ agentResult' = agentResult
                  /\ pc' = "retryThrown"
  /\ UNCHANGED << runVars, runnerInitialized, caller, lastCall, slowExecutor, abandoned,
                  retries, attempt, lastError,
                  slept, outcomes, raised, execCount, handlerCalls, declinedStep,
                  nonRecoverableSeen, testHistory >>

\* effect of one settled attempt on the retry loop
Settle(result) ==
  LET step == RetryStep(result, attempt, retries) IN
  /\ outcomes' = Append(outcomes, result)
  /\ lastError' = IF result.success THEN lastError ELSE result.error
  /\ allOk' = (allOk /\ result.success)
  /\ IF step.do = "sleep"
     THEN /\ slept' = Append(slept, backoffDelay(attempt))
          /\ pc' = "backoff"
          /\ UNCHANGED agentResult
     ELSE /\ agentResult' = step.result
          /\ pc' = ReturnPc
          /\ UNCHANGED slept
  /\ UNCHANGED << runVars, runnerInitialized, caller, lastCall, slowExecutor,
                  retries, attempt, invocations,
                  execCount, handlerCalls, declinedStep, nonRecoverableSeen, testHistory >>

\* runner.run resolves with a final output
ExecutorSucceeds ==
  /\ pc = "running"
  /\ \E data \in CurrentOutputs : Settle(SuccessResult(data))
  /\ UNCHANGED << raised, abandoned >>

\* runner.run rejects, or the timeout promise rejects first: Promise.race then
\* settles while the runner.run call, which nothing cancels, goes on
ExecutorFails ==
  /\ pc = "running"
  /\ MayFail
  /\ \E error \in CurrentErrors :
       /\ Settle(FailureResult(error))
       /\ raised' = Append(raised, error)
       /\ abandoned' = IF error = TimeoutError THEN Min(abandoned + 1, MaxAbandoned)
                     ELSE abandoned

\* a runner.run call that lost the race against the timeout settles; nothing
\* awaits its outcome any more
AbandonedCallSettles ==
  /\ abandoned > 0
  /\ abandoned' = abandoned - 1
  /\ UNCHANGED << runVars, runnerInitialized, caller, lastCall, slowExecutor, pc,
                  retryVars, histVars >>

\* the backoff sleep ends; the for loop increments attempt
BackoffElapsed ==
  /\ pc = "backoff"
  /\ attempt' = attempt + 1
  /\ pc' = "attempt"
  /\ UNCHANGED << runVars, runnerInitialized, caller, lastCall, slowExecutor, abandoned,
                  retries, lastError, agentResult,
                  slept, invocations, outcomes, raised, histVars >>

\* variant: a supplied handler is asked even when autoApprove is set
AsksHandler_IgnoresAutoApprove(cfg, handler) == handler

\* requestApproval: TRUE iff the decision is left to the approval handler
AsksHandler(cfg, handler) == ~cfg.autoApprove /\ handler

\* errors the approval handler may reject with
HandlerErrors == { << "approval handler failed" >>, << "permission denied" >> }

\* runAgentWithRetry returned to executeAgent: the rest of executeCurrentStep and
\* of the loop body, up to the next await (the approval handler) or the next
\* evaluation of the loop condition
CompleteStep ==
  /\ pc = "stepResult"
  /\ LET step     == getCurrentStep(context)
         recorded == RecordStepResult(context, step, agentResult)
         thrown   == ~agentResult.success /\ ~agentResult.recoverable
         message  == CriticalMessage(step.stage, agentResult.error)
         caught   == CatchStepError(recorded, step, message)
         now      == getCurrentStep(recorded)
         gated    == now.requiresApproval /\ ~now.approved
         asks     == gated /\ AsksHandler(config, approvalHandler)
         resolved == ResolveApproval(recorded, step.id, TRUE)
     IN
       /\ IF thrown
          THEN /\ context' = caught.ctx
               /\ pc' = IF caught.left THEN "returned" ELSE "loop"
          ELSE IF asks
          THEN /\ context' = recorded
               /\ pc' = "awaitApproval"
          ELSE IF gated
          THEN /\ context' = resolved.ctx
               /\ pc' = "loop"
          ELSE /\ context' = AdvanceOrIterate(recorded)
               /\ pc' = "loop"
       /\ handlerCalls' = IF ~thrown /\ asks THEN handlerCalls \cup { step.id }
                          ELSE handlerCalls
       /\ nonRecoverableSeen' = (nonRecoverableSeen \/ (thrown /\ ~isCriticalError(message)))
       /\ allOk' = (allOk /\ agentResult.success /\ ~shouldIterateBasedOnResults(recorded))
       /\ testHistory' = IF /\ agentResult.success
                            /\ step.stage = TESTING
                            /\ agentResult.data.kind = "testReport"
                            /\ Len(testHistory) < MaxExec
                         THEN Append(testHistory, agentResult.data.failed)
                         ELSE testHistory
  \* the locals of the finished calls are gone
  /\ attempt' = 0
  /\ lastError' = NoMessage
  /\ agentResult' = NoResult
  /\ slept' = << >>
  /\ invocations' = 0
  /\ outcomes' = << >>
  /\ raised' = << >>
  /\ UNCHANGED << config, approvalHandler, runnerInitialized, caller, lastCall, slowExecutor, abandoned,
                  retries,
                  execCount, declinedStep >>

\* the approval handler resolves with its decision
ApprovalDecides ==
  /\ pc = "awaitApproval"
  /\ \E approved \in BOOLEAN :
       LET step     == getCurrentStep(context)
           resolved == ResolveApproval(context, step.id, approved)
       IN /\ context' = resolved.ctx
          /\ pc' = IF resolved.left THEN "returned" ELSE "loop"
          /\ declinedStep' = IF approved THEN declinedStep ELSE step.id
          /\ allOk' = (allOk /\ approved)
  /\ UNCHANGED << config, approvalHandler, runnerInitialized, caller, lastCall, slowExecutor, abandoned,
                  retryVars,
                  execCount, handlerCalls, nonRecoverableSeen, testHistory >>

\* the approval handler rejects: the catch block of the loop body runs
ApprovalThrows ==
  /\ pc = "awaitApproval"
  /\ MayFail
  /\ \E message \in HandlerErrors :
       LET caught == CatchStepError(context, getCurrentStep(context), message)
       IN /\ context' = caught.ctx
          /\ pc' = IF caught.left THEN "returned" ELSE "loop"
  /\ allOk' = FALSE
  /\ UNCHANGED << config, approvalHandler, runnerInitialized, caller, lastCall, slowExecutor, abandoned,
                  retryVars,
                  execCount, handlerCalls, declinedStep, nonRecoverableSeen, testHistory >>

\* ------------------------------------- ProjectContextManager called directly
\* the step ids a client passes: those of the list, and one no step has
StepIds == 0..Len(context.workflow)

\* the (status, result, error) arguments a client passes to updateStepStatus
StatusUpdates ==
  { [status |-> IN_PROGRESS, result |-> Undefined, error |-> NoMessage],
    [status |-> COMPLETED, result |-> Output(TRIAGE), error |-> NoMessage],
    [status |-> FAILED, result |-> Undefined, error |-> << "Temporary failure" >>] }

\* the client may make another call
MayCall == pc = "manager" /\ lastCall.seq < MaxCalls

\* the record of a call that returns nothing
Called(op, stepId) ==
  [op |-> op, stepId |-> stepId, returned |-> FALSE, step |-> Undefined,
   stamped |-> stampsUpdatedAt(op, context, stepId), seq |-> lastCall.seq + 1]

managerFrame ==
  << config, approvalHandler, runnerInitialized, caller, slowExecutor, abandoned, pc,
     retryVars, histVars >>

CallAddWorkflowStep ==
  /\ MayCall
  /\ Len(context.workflow) < MaxSteps
  /\ LET def == workflowSteps[Len(context.workflow) + 1] IN
       context' = addWorkflowStep(context, def.stage, def.agentName, def.byConfig)
  /\ lastCall' = Called("addWorkflowStep", -1)
  /\ UNCHANGED managerFrame

CallUpdateStepStatus ==
  /\ MayCall
  /\ \E stepId \in StepIds, u \in StatusUpdates :
       /\ context' = updateStepStatus(context, stepId, u.status, u.result, u.error)
       /\ lastCall' = Called("updateStepStatus", stepId)
  /\ UNCHANGED managerFrame

CallMoveToNextStep ==
  /\ MayCall
  /\ context' = moveToNextStep(context)
  /\ lastCall' = [Called("moveToNextStep", -1) EXCEPT
                    !.returned = moveToNextStepReturns(context)]
  /\ UNCHANGED managerFrame

CallGetCurrentStep ==
  /\ MayCall
  /\ lastCall' = [Called("getCurrentStep", -1) EXCEPT !.step = getCurrentStep(context)]
  /\ UNCHANGED << context, managerFrame >>

\* the messages a client logs
LoggedMessages == { << "Temporary failure" >>, << "authentication failed" >> }

CallAddError ==
  /\ MayCall
  /\ Len(context.errors) < MaxLogged
  /\ \E error \in LoggedMessages :
       context' = addError(context, context.currentStage, error)
  /\ lastCall' = Called("addError", -1)
  /\ UNCHANGED managerFrame

CallIncrementIteration ==
  /\ MayCall
  /\ context' = incrementIteration(context)
  /\ lastCall' = Called("incrementIteration", -1)
  /\ UNCHANGED managerFrame

CallAddApprovalRequest ==
  /\ MayCall
  /\ Len(context.pendingApprovals) < MaxPending
  /\ \E stepId \in StepIds :
       /\ context' = addApprovalRequest(context, stepId, << "Approve step" >>)
       /\ lastCall' = Called("addApprovalRequest", stepId)
  /\ UNCHANGED managerFrame

CallApproveStep ==
  /\ MayCall
  /\ \E stepId \in StepIds :
       /\ context' = approveStep(context, stepId)
       /\ lastCall' = Called("approveStep", stepId)
  /\ UNCHANGED managerFrame

\* ---------------------------------------------------------- specifications
ManagerNext ==
  \/ CallAddWorkflowStep
  \/ CallUpdateStepStatus
  \/ CallMoveToNextStep
  \/ CallGetCurrentStep
  \/ CallAddError
  \/ CallIncrementIteration
  \/ CallAddApprovalRequest
  \/ CallApproveStep

\* any sequence of ProjectContextManager calls on a fresh context
ManagerSpec == ManagerInit /\ [][ManagerNext]_vars

RetryNext ==
  \/ InvokeExecutor
  \/ ExecutorSucceeds
  \/ ExecutorFails
  \/ BackoffElapsed
  \/ AbandonedCallSettles

Next ==
  \/ InitializeWorkflow
  \/ StartStep
  \/ ExitLoop
  \/ InvokeExecutor
  \/ ExecutorSucceeds
  \/ ExecutorFails
  \/ BackoffElapsed
  \/ CompleteStep
  \/ ApprovalDecides
  \/ ApprovalThrows

\* one run of executeWorkflow
Spec == Init /\ [][Next]_vars

\* the actions of a run whose executor calls all resolve and whose approval
\* handler never rejects
NoFaultNext ==
  \/ InitializeWorkflow
  \/ StartStep
  \/ ExitLoop
  \/ InvokeExecutor
  \/ ExecutorSucceeds
  \/ CompleteStep
  \/ ApprovalDecides

\* such a run, in which every pending continuation is eventually resumed
NoFaultSpec == Init /\ [][NoFaultNext]_vars /\ WF_vars(NoFaultNext)

\* one direct call of runAgentWithRetry
RetrySpec == RetryInit /\ [][RetryNext]_vars

\* a run of executeWorkflow whose executor calls may outlast the timeout
SlowNext == Next \/ AbandonedCallSettles

SlowSpec == SlowInit /\ [][SlowNext]_vars

\* the two ways a context is driven: by a run of executeWorkflow, or by a
\* client calling the ProjectContextManager methods
ContextInit == Init \/ ManagerInit

ContextNext == Next \/ ManagerNext

ContextSpec == ContextInit /\ [][ContextNext]_vars

TypeOK ==
  /\ pc \in { "idle", "loop", "attempt", "running", "backoff", "stepResult",
              "awaitApproval", "returned", "retryReturned", "retryThrown",
              "manager" }
  /\ context.currentStepIndex \in 0..Len(workflowSteps)
  /\ attempt \in 0..MaxRetries
  /\ slowExecutor \in BOOLEAN
  /\ abandoned \in 0..MaxAbandoned
  /\ invocations \in 0..(MaxRetries + 1)
  /\ Len(context.errors) <= Max(MaxErrors, MaxLogged)

\* ------------------------------------------------------------------ claims
AllStepsCompleted ==
  /\ context.workflow # << >>
  /\ \A i \in 1..Len(context.workflow) : context.workflow[i].status = COMPLETED

\* C1: a run in which every executor call succeeds, every approval is granted
\* and no result reports a quality failure eventually returns, with the run
\* status completed and every step completed.
C1_Claim ==
  <>(~allOk \/ (pc = "returned" /\ context.status = COMPLETED /\ AllStepsCompleted))

\* no step failure reached the loop and no approval was declined
NoStepFailure == context.errors = << >> /\ declinedStep = -1

\* C2: when the first testing report has a failed check and the budget is not
\* exhausted, implementation and testing are each executed a second time
\* before the run returns.
C2_Claim ==
  (pc = "returned" /\ NoStepFailure /\ testHistory # << >> /\ testHistory[1] > 0)
    => (execCount[IMPLEMENTATION] >= 2 /\ execCount[TESTING] >= 2)

\* runner.run is called in this step
ExecutorInvoked == invocations' = invocations + 1

\* C3: once a stage failure with recoverable = false and no fatal pattern has
\* reached the loop, no executor is invoked again in that run.
C3_Claim == [][nonRecoverableSeen => ~ExecutorInvoked]_vars

\* C4: when executeWorkflow has returned, the run status is completed if every
\* step is completed and failed otherwise.
C4_Claim ==
  pc = "returned" =>
    context.status = (IF AllStepsCompleted THEN COMPLETED ELSE FAILED)

\* C5: every step before the cursor that requires approval has been approved
\* by approveStep (the only writer of the approved flag).
C5_Gate ==
  \A i \in 1..Len(context.workflow) :
    (i - 1 < context.currentStepIndex /\ context.workflow[i].requiresApproval)
      => context.workflow[i].approved

\* the cursor is past the architecture step after the handler approved it
C5_Witness ==
  /\ context.currentStepIndex > 2
  /\ context.workflow[3].requiresApproval
  /\ 2 \in handlerCalls

\* C6: after a declined approval the returned run has status failed, no
\* pending approvals, and an error-log entry for the declined step's stage
\* saying that the approval was declined.
C6_Claim ==
  (pc = "returned" /\ declinedStep # -1) =>
    /\ context.status = FAILED
    /\ context.pendingApprovals = << >>
    /\ \E i \in 1..Len(context.errors) :
         /\ context.errors[i].stage = context.workflow[declinedStep + 1].stage
         /\ context.errors[i].error = DeclinedMessage

\* C7: after a declined approval the step is failed with the declined reason,
\* executeWorkflow has returned, and no step is started and no executor is
\* invoked any more.
C7_Declined ==
  /\ [](declinedStep # -1 =>
          /\ pc = "returned"
          /\ context.workflow[declinedStep + 1].status = FAILED
          /\ context.workflow[declinedStep + 1].error = DeclinedMessage)
  /\ [][declinedStep # -1 => (~ExecutorInvoked /\ execCount' = execCount)]_vars

C7_Witness == declinedStep = 6 /\ pc = "returned"

\* C8: iterationCount never exceeds maxIterations of the run state, and once
\* they are equal a true iteration predicate moves neither the cursor nor the
\* counter.
C8_Bound ==
  /\ [](context.iterationCount <= context.maxIterations)
  /\ [][(context.iterationCount = context.maxIterations
           /\ shouldIterateBasedOnResults(context))
         => /\ context'.currentStepIndex = context.currentStepIndex
            /\ context'.iterationCount = context.iterationCount]_vars

\* the budget is used up while the stored report still asks for a rewind
C8_Witness ==
  /\ pc = "returned"
  /\ context.iterationCount = context.maxIterations
  /\ context.maxIterations = DefaultMaxIterations
  /\ shouldIterateBasedOnResults(context)

\* C9: the number of rewinds never exceeds config.maxIterations.
C9_Claim == context.iterationCount <= config.maxIterations

\* C10: a direct call whose executor fails k <= retries times with recoverable
\* errors and then succeeds has returned success with the data of the
\* successful attempt after exactly k+1 executor invocations.
C10_RetryThenSuccess ==
  LET n == Len(outcomes) IN
  ( /\ n >= 1
    /\ n - 1 <= retries
    /\ outcomes[n].success
    /\ \A i \in 1..(n - 1) : ~outcomes[i].success /\ outcomes[i].recoverable )
  => /\ pc = "retryReturned"
     /\ agentResult.success
     /\ agentResult.data = outcomes[n].data
     /\ invocations = n

\* success on the last allowed attempt of a call with three retries
C10_Witness ==
  /\ pc = "retryReturned"
  /\ retries = 3
  /\ Len(outcomes) = 4
  /\ agentResult.success
  /\ agentResult.data = TestReport(1)

\* message ends with the fragments of tail
EndsWith(message, tail) ==
  /\ Len(message) >= Len(tail)
  /\ SubSeq(message, Len(message) - Len(tail) + 1, Len(message)) = tail

\* every attempt of the current call failed with a recoverable error
AllRecoverableFailures ==
  \A i \in 1..Len(outcomes) : ~outcomes[i].success /\ outcomes[i].recoverable

\* C11: when retries + 1 consecutive attempts of a runAgentWithRetry call fail
\* with a recoverable error, the call has returned a failure of type
\* RetryExhausted with recoverable false whose message ends with the message of
\* the last attempt's error, and the executor was invoked exactly retries + 1
\* times.
C11_Exhausted ==
  (Len(outcomes) = retries + 1 /\ AllRecoverableFailures)
    => /\ pc = "retryReturned"
       /\ ~agentResult.success
       /\ agentResult.errorType = "RetryExhausted"
       /\ ~agentResult.recoverable
       /\ EndsWith(agentResult.error, outcomes[Len(outcomes)].error)
       /\ Len(agentResult.error) > Len(outcomes[Len(outcomes)].error)
       /\ invocations = retries + 1

C11_Witness ==
  /\ caller = "direct"
  /\ retries = 2
  /\ Len(outcomes) = 3
  /\ AllRecoverableFailures
  /\ outcomes[3].error # outcomes[2].error
  /\ agentResult.errorType = "RetryExhausted"

\* C12: an attempt that fails with recoverable false ends the call at once:
\* the call has returned that attempt's result unchanged, no backoff was slept
\* after it, and the executor was invoked once per attempt made, so exactly
\* once when it is the first attempt.
C12_NonRecoverable ==
  LET n == Len(outcomes) IN
  (n > 0 /\ ~outcomes[n].success /\ ~outcomes[n].recoverable)
    => /\ pc = "retryReturned"
       /\ agentResult = outcomes[n]
       /\ Len(slept) = n - 1
       /\ invocations = n
       /\ attempt = n - 1

C12_Witness ==
  /\ caller = "direct"
  /\ retries > 0
  /\ Len(outcomes) = 1
  /\ ~outcomes[1].success /\ ~outcomes[1].recoverable
  /\ pc = "retryReturned"
  /\ invocations = 1
  /\ slept = << >>

\* a client's call of the named ProjectContextManager method happens in this step
ManagerCalled(op) == lastCall'.op = op /\ lastCall'.seq = lastCall.seq + 1

\* C13: after any sequence of ProjectContextManager calls on a context made by
\* create(), the run status is requires_approval exactly when pendingApprovals
\* is non-empty; an approveStep call that leaves requests pending leaves the
\* status requires_approval, one that leaves none sets it to in_progress.
C13_ApprovalStatus ==
  /\ []((context.status = REQUIRES_APPROVAL) <=> (context.pendingApprovals # << >>))
  /\ [][ManagerCalled("approveStep") =>
          IF context'.pendingApprovals # << >>
          THEN context'.status = REQUIRES_APPROVAL /\ context.status = REQUIRES_APPROVAL
          ELSE context'.status = IN_PROGRESS]_vars

C13_Witness ==
  /\ lastCall.op = "approveStep"
  /\ Len(context.pendingApprovals) = 1
  /\ context.pendingApprovals[1].stepId # lastCall.stepId
  /\ FindStep(context, lastCall.stepId) # 0
  /\ context.workflow[FindStep(context, lastCall.stepId)].approved
  /\ context.status = REQUIRES_APPROVAL
  /\ context.errors # << >>
  /\ context.currentStepIndex > 0

\* pendingApprovals holds a request for the step
ApprovalPending(ctx, stepId) ==
  \E i \in 1..Len(ctx.pendingApprovals) : ctx.pendingApprovals[i].stepId = stepId

\* C14: while executeWorkflow waits for the approval handler's decision on a
\* step, the run status is requires_approval and pendingApprovals holds a
\* request for that step; once the handler approves, the request is gone and
\* the status is in_progress.
C14_Claim ==
  /\ [](pc = "awaitApproval" =>
          /\ context.status = REQUIRES_APPROVAL
          /\ ApprovalPending(context, getCurrentStep(context).id))
  /\ [][(pc = "awaitApproval" /\ pc' = "loop" /\ declinedStep' = declinedStep
          /\ Len(context'.errors) = Len(context.errors)) =>
          /\ context'.status = IN_PROGRESS
          /\ ~ApprovalPending(context', getCurrentStep(context).id)]_vars

\* handleIterationLoop rewinds the cursor in this step
Rewind ==
  /\ context'.iterationCount = context.iterationCount + 1
  /\ context'.currentStepIndex = implementationStepIndex(context)

\* C15: in every state reached through the ProjectContextManager methods or
\* during executeWorkflow the cursor satisfies 0 <= currentStepIndex <=
\* len(workflow), and the cursor decreases only when the iteration loop rewinds.
C15_Cursor ==
  /\ [](0 <= context.currentStepIndex /\ context.currentStepIndex <= Len(context.workflow))
  /\ [][context'.currentStepIndex < context.currentStepIndex => Rewind]_vars

C15_Witness ==
  /\ caller = "workflow"
  /\ pc = "loop"
  /\ context.iterationCount = 1
  /\ context.currentStepIndex = implementationStepIndex(context)
  /\ execCount[TESTING] = 1
  /\ execCount[IMPLEMENTATION] = 1

\* the cursor is on the last step of a non-empty step list
OnLastStep(ctx) ==
  ctx.workflow # << >> /\ ctx.currentStepIndex = Len(ctx.workflow) - 1

OrderedStatusChanges ==
  { << PENDING, IN_PROGRESS >>, << IN_PROGRESS, COMPLETED >>, << IN_PROGRESS, FAILED >>,
    << COMPLETED, IN_PROGRESS >>, << FAILED, IN_PROGRESS >> }

\* C17: throughout executeWorkflow every change of a step's status follows the
\* order pending -> in_progress -> {completed | failed}: a completed or failed
\* step changes status only by becoming in_progress again, and no step returns
\* to pending.
C17_Claim ==
  [][\A i \in 1..Len(context.workflow) :
       context'.workflow[i].status # context.workflow[i].status =>
         << context.workflow[i].status, context'.workflow[i].status >>
           \in OrderedStatusChanges]_vars

\* the text occurs in the message
Mentions(message, text) == \E i \in 1..Len(message) : message[i] = text

\* the error log holds a message that matches a fatal pattern
FatalLogged ==
  \E i \in 1..Len(context.errors) :
    \E p \in criticalPatterns : Mentions(context.errors[i].error, p)

\* C18: when the error the main loop caught for a stage has a message matching
\* a fatal pattern, executeWorkflow has left its loop and returned, and from
\* then on no step is started and no executor is invoked, whatever the
\* recoverable flag of the failure was.
C18_FatalStops ==
  /\ [](FatalLogged => pc = "returned")
  /\ [][FatalLogged => (~ExecutorInvoked /\ execCount' = execCount)]_vars

C18_Witness ==
  /\ pc = "returned"
  /\ Len(context.errors) = 1
  /\ context.errors[1].stage = ARCHITECTURE
  /\ Mentions(context.errors[1].error, "authentication failed")
  /\ Mentions(context.errors[1].error, "Critical error in")
  /\ Mentions(context.errors[1].error, "Failed after")

\* the message matches one of the fatal patterns
MatchesFatalPattern(message) ==
  \E p \in criticalPatterns : Mentions(message, p)

\* an attempt of the current runAgentWithRetry call failed with a fatal message
FatalAttemptFailure ==
  \E i \in 1..Len(outcomes) :
    ~outcomes[i].success /\ MatchesFatalPattern(outcomes[i].error)

\* C19: once an executor attempt has failed with a message matching a fatal
\* pattern, that executor is not invoked again, even though the classifier
\* marks the failure recoverable.
C19_Claim ==
  [][FatalAttemptFailure => ~ExecutorInvoked]_vars

\* the loop condition of executeWorkflow
LoopContinues(ctx) ==
  hasMoreSteps(ctx) /\ shouldContinueIterations(ctx) /\ getCurrentStep(ctx) # Undefined

ExecutorCallFailed == pc = "stepResult" /\ ~agentResult.success

\* the approval handler rejects in this step: the wait ends without a decision
HandlerThrew ==
  /\ pc = "awaitApproval" /\ pc' # "awaitApproval"
  /\ declinedStep' = declinedStep
  /\ ~context'.workflow[context.currentStepIndex + 1].approved

\* C21: no exception of an executor call or of the approval handler leaves
\* executeWorkflow: each such failure is turned into the current step being
\* marked failed and an error-log entry for that step's stage, and control
\* stays in executeWorkflow (back at the loop, or returning normally).
C21_NoEscape ==
  /\ [](pc # "retryThrown")
  /\ [][(ExecutorCallFailed \/ HandlerThrew) =>
          /\ pc' \in { "loop", "returned" }
          /\ context'.workflow[context.currentStepIndex + 1].status = FAILED
          /\ Len(context'.errors) = Len(context.errors) + 1
          /\ context'.errors[Len(context'.errors)].stage = getCurrentStep(context).stage]_vars

C21_Witness ==
  /\ pc = "loop"
  /\ Len(context.errors) = 1
  /\ context.errors[1].error = << "approval handler failed" >>
  /\ getCurrentStep(context).status = FAILED
  /\ getCurrentStep(context).stage = context.errors[1].stage
  /\ getCurrentStep(context).id \in handlerCalls

\* attempt number i (from 1) of the current call was the last one made so far
\* and the retry bound leaves further attempts
AttemptsRemainAfter(i) == i = Len(outcomes) /\ i <= retries

\* the call goes on to another attempt
Retrying == pc \in { "backoff", "attempt", "running" }

\* C22 as stated: an attempt that ends by the timeout yields a failure result
\* of category Timeout with recoverable true, and is retried while attempts
\* remain.
C22_Claim ==
  \A i \in 1..Len(raised) :
    raised[i] = TimeoutError =>
      /\ ~outcomes[i].success
      /\ outcomes[i].errorType = "Timeout"
      /\ outcomes[i].recoverable
      /\ (AttemptsRemainAfter(i) => Retrying)

\* C22 amended: an attempt that ends by the timeout yields a failure result
\* with the message of the timeout, of category UnknownError (the classifier
\* knows no Timeout category) and with recoverable true, and is retried while
\* attempts remain.
C22_TimeoutRetried ==
  \A i \in 1..Len(raised) :
    raised[i] = TimeoutError =>
      /\ ~outcomes[i].success
      /\ outcomes[i].error = << "Agent execution timeout" >>
      /\ outcomes[i].errorType = "UnknownError"
      /\ outcomes[i].recoverable
      /\ (AttemptsRemainAfter(i) => Retrying)

C22_Witness ==
  /\ Len(raised) = 2
  /\ raised[1] = TimeoutError
  /\ raised[2] = TimeoutError
  /\ retries = 2
  /\ pc = "backoff"
  /\ invocations = 2

\* an attempt of the current call failed because options.signal was aborted
AbortedAttempt == \E i \in 1..Len(raised) : raised[i] = AbortError

\* C23: once an attempt has failed because the cancellation signal passed to
\* the executor call was triggered, runAgentWithRetry does not invoke the
\* executor again.
C23_Claim ==
  [][AbortedAttempt => ~ExecutorInvoked]_vars

\* C24: runAgent and runAgentWithRetry never throw: whatever the state of the
\* shared runner and the outcome of the executor, the call ends by returning
\* an AgentRunResult.
C24_Claim ==
  /\ pc # "retryThrown"
  /\ (pc = "retryReturned" => agentResult.success \in BOOLEAN)

\* min(1000 * 2^a, 5000) for a = 0, 1, 2, ...: the delays in the order slept
ExpectedDelays == << 1000, 2000, 4000, 5000, 5000, 5000, 5000, 5000 >>

\* the attempts (numbered from 1) that failed recoverably with attempts left
RetriedAttempts ==
  { i \in 1..Len(outcomes) :
      ~outcomes[i].success /\ outcomes[i].recoverable /\ i <= retries }

\* C25: in runAgentWithRetry the wait after a recoverable failure of attempt a
\* (from 0) with attempts remaining is min(1000 * 2^a, 5000) ms, that is 1000,
\* 2000, 4000, then 5000; there is one wait per such failure and none after
\* the final attempt.
C25_Backoff ==
  /\ Len(slept) = Cardinality(RetriedAttempts)
  /\ Len(slept) <= retries
  /\ \A k \in 1..Len(slept) :
       /\ k \in RetriedAttempts
       /\ slept[k] = ExpectedDelays[k]

C25_Witness ==
  /\ retries = 4
  /\ pc = "retryReturned"
  /\ agentResult.errorType = "RetryExhausted"
  /\ slept = << 1000, 2000, 4000, 5000 >>
  /\ Len(outcomes) = 5

\* the SDK error classes the classifier treats as recoverable
RecoverableClasses == { "GuardrailExecutionError", "ModelBehaviorError", "ToolCallError" }

\* C26: the category and the recoverable flag of a failure result are a
\* function of the tag of the value raised: an Error named
\* MaxTurnsExceededError gives recoverable false; an Error named
\* GuardrailExecutionError, ModelBehaviorError or ToolCallError gives that
\* category with recoverable true; every other value, values that are not
\* Errors included, gives UnknownError with recoverable true.
C26_Classifier ==
  /\ Len(raised) <= Len(outcomes)
  /\ \A i \in 1..Len(raised) :
       LET e == raised[i]
           o == outcomes[i]
       IN /\ ~o.success
          /\ IF e.isError /\ e.name = "MaxTurnsExceededError"
             THEN o.errorType = "MaxTurnsExceededError" /\ ~o.recoverable
             ELSE IF e.isError /\ e.name \in RecoverableClasses
             THEN o.errorType = e.name /\ o.recoverable
             ELSE o.errorType = "UnknownError" /\ o.recoverable
  /\ \A i, j \in 1..Len(raised) :
       (raised[i].isError = raised[j].isError /\ raised[i].name = raised[j].name)
         => /\ outcomes[i].errorType = outcomes[j].errorType
            /\ outcomes[i].recoverable = outcomes[j].recoverable

C26_Witness ==
  /\ Len(raised) = 3
  /\ ~raised[1].isError /\ raised[1].name = "MaxTurnsExceededError"
  /\ raised[2].name = "GuardrailExecutionError"
  /\ raised[3].isError /\ raised[3].name = "MaxTurnsExceededError"
  /\ pc = "retryReturned"
  /\ agentResult.errorType = "MaxTurnsExceededError"

\* the executor of a step that requires approval and has none yet succeeded:
\* the loop body reaches requestApproval
GateReached ==
  /\ pc = "stepResult"
  /\ agentResult.success
  /\ getCurrentStep(context).requiresApproval
  /\ ~getCurrentStep(context).approved

\* C27: the approval handler is invoked for a step if and only if autoApprove
\* is false and a handler was supplied; with autoApprove set, or without a
\* handler, the step is approved without the handler being invoked.
C27_HandlerInvoked ==
  /\ []((handlerCalls # {} \/ pc = "awaitApproval") =>
          (~config.autoApprove /\ approvalHandler))
  /\ [][GateReached =>
          IF ~config.autoApprove /\ approvalHandler
          THEN /\ pc' = "awaitApproval"
               /\ handlerCalls' = handlerCalls \cup { getCurrentStep(context).id }
               /\ ~context'.workflow[context.currentStepIndex + 1].approved
          ELSE /\ pc' = "loop"
               /\ handlerCalls' = handlerCalls
               /\ context'.workflow[context.currentStepIndex + 1].approved]_vars

C27_Witness ==
  /\ config.requireApproval
  /\ config.autoApprove
  /\ approvalHandler
  /\ handlerCalls = {}
  /\ \E i \in 1..Len(context.workflow) :
       /\ context.workflow[i].requiresApproval
       /\ context.workflow[i].approved
       /\ context.currentStepIndex = i

\* no step of the list has the id
UnknownStep(ctx, stepId) ==
  \A i \in 1..Len(ctx.workflow) : ctx.workflow[i].id # stepId

\* C28: updateStepStatus called with an id that matches no step does nothing:
\* the client goes on, and the step list with every step's status, result and
\* error, the cursor, the run status and updatedAt are as before.
C28_UnknownStepNoOp ==
  [][(ManagerCalled("updateStepStatus") /\ UnknownStep(context, lastCall'.stepId)) =>
       /\ pc' = pc
       /\ context'.workflow = context.workflow
       /\ context'.currentStepIndex = context.currentStepIndex
       /\ context'.status = context.status
       /\ context' = context
       /\ ~lastCall'.stamped]_vars

C28_Witness ==
  /\ lastCall.op = "updateStepStatus"
  /\ UnknownStep(context, lastCall.stepId)
  /\ ~lastCall.stamped
  /\ Len(context.workflow) = 2
  /\ context.workflow[1].status = COMPLETED
  /\ context.currentStepIndex = 1
  /\ context.status = REQUIRES_APPROVAL

\* log is the beginning of extended, entry for entry
IsPrefix(log, extended) ==
  /\ Len(log) <= Len(extended)
  /\ SubSeq(extended, 1, Len(log)) = log

\* C29: the error log is append-only and ordered: no step of executeWorkflow and
\* no ProjectContextManager method removes, changes or reorders an entry, and
\* addError appends exactly one entry at the end and leaves the run status as
\* it is.
C29_AppendOnly ==
  /\ [][IsPrefix(context.errors, context'.errors)]_vars
  /\ [][ManagerCalled("addError") =>
          /\ Len(context'.errors) = Len(context.errors) + 1
          /\ IsPrefix(context.errors, context'.errors)
          /\ context'.status = context.status]_vars

C29_Witness ==
  /\ lastCall.op = "addError"
  /\ Len(context.errors) = 2
  /\ context.errors[1].error = << "authentication failed" >>
  /\ context.errors[2].error = << "Temporary failure" >>
  /\ context.status = REQUIRES_APPROVAL

\* the steps of the list whose status is in_progress
InProgressSteps ==
  { i \in DOMAIN context.workflow : context.workflow[i].status = IN_PROGRESS }

\* runner.run calls that have not settled: the one runAgent awaits, and those
\* whose attempt the timeout ended
InFlight == abandoned + (IF pc = "running" THEN 1 ELSE 0)

\* C30: a run of executeWorkflow is strictly serial: at every moment at most one
\* step is in_progress and at most one executor call is in flight, and the
\* executor is invoked only when every earlier call has settled.
C30_Claim ==
  /\ [](caller = "workflow" => Cardinality(InProgressSteps) <= 1)
  /\ [](caller = "workflow" => InFlight <= 1)
  /\ [][caller = "workflow" /\ ExecutorInvoked => InFlight = 0]_vars

\* the step list is the one initializeWorkflow builds: one step per configured
\* stage, in the order of the definition
StepListAsConfigured ==
  /\ Len(context.workflow) = Len(workflowSteps)
  /\ \A i \in 1..Len(workflowSteps) :
       /\ context.workflow[i].stage = workflowSteps[i].stage
       /\ context.workflow[i].id = i - 1

\* the stages of the steps of the list, in order
StageOrder(ctx) == [i \in 1..Len(ctx.workflow) |-> ctx.workflow[i].stage]

\* C31: from initializeWorkflow on the step list has exactly one step per
\* configured stage, in stage order, and keeps its length and order; a rewind
\* creates no step and puts the cursor on the first existing implementation
\* step.
C31_RewindKeepsList ==
  /\ [](pc # "idle" => StepListAsConfigured)
  /\ [][pc # "idle" => StageOrder(context') = StageOrder(context)]_vars
  /\ [][context'.iterationCount # context.iterationCount =>
          /\ StageOrder(context') = StageOrder(context)
          /\ context'.currentStepIndex = implementationStepIndex(context)
          /\ getCurrentStep(context').stage = IMPLEMENTATION
          /\ \A i \in 1..context'.currentStepIndex :
               context.workflow[i].stage # IMPLEMENTATION]_vars

C31_Witness ==
  /\ pc = "loop"
  /\ context.iterationCount = 1
  /\ execCount[TESTING] = 1
  /\ getCurrentStep(context).stage = IMPLEMENTATION
  /\ getCurrentStep(context).status = COMPLETED
  /\ StepListAsConfigured

\* the stored report of the given stage satisfies the iteration predicate
ReportAsksIteration(ctx, stage) ==
  CASE stage = TESTING -> /\ ctx.testReport.kind = "testReport"
                          /\ ctx.testReport.failed > 0
    [] stage = REVIEW  -> /\ ctx.reviewReport.kind = "reviewReport"
                          /\ \E i \in 1..Len(ctx.reviewReport.issues) :
                               ctx.reviewReport.issues[i] = "error"
    [] OTHER           -> FALSE

\* C32: every rewind is triggered by a report delivered since the previous
\* rewind: the step that completes when the cursor is rewound is the testing or
\* review step whose report satisfies the iteration predicate, never the re-run
\* implementation step with a report stored before.
C32_Claim ==
  [][Rewind => ReportAsksIteration(context', getCurrentStep(context).stage)]_vars

\* C33: a run of executeWorkflow in which every executor call and every
\* approval decision returns comes to its end: executeWorkflow returns, and
\* from then on no executor is invoked. (Stated for the runs with an
\* initialized runner, in which every call reaches the executor.)
C33_Claim ==
  runnerInitialized => <>[](pc = "returned")

\* the result slot of the run state that belongs to the stage
Slot(ctx, stage) ==
  CASE stage = TRIAGE         -> ctx.triageResult
    [] stage = RESEARCH       -> ctx.researchResult
    [] stage = ARCHITECTURE   -> ctx.architecturePlan
    [] stage = IMPLEMENTATION -> ctx.implementationResult
    [] stage = TESTING        -> ctx.testReport
    [] stage = REVIEW         -> ctx.reviewReport
    [] stage = DEVOPS         -> ctx.devopsPlan
    [] stage = DOCUMENTATION  -> ctx.docsUpdate

\* the results stored on the steps of the list, in order
StepResults(ctx) == [i \in 1..Len(ctx.workflow) |-> ctx.workflow[i].result]

\* C34: when the executor call of a step has failed, the rest of the loop body
\* leaves every result slot of the run state and the result stored on every
\* step as they were; a slot changes only when the step of its own stage has
\* been executed successfully, and then to the data of that execution.
C34_FailureKeepsResults ==
  /\ [][(pc = "stepResult" /\ ~agentResult.success) =>
          /\ \A stage \in Stages : Slot(context', stage) = Slot(context, stage)
          /\ StepResults(context') = StepResults(context)]_vars
  /\ [][\A stage \in Stages :
          Slot(context', stage) # Slot(context, stage) =>
            /\ pc = "stepResult"
            /\ agentResult.success
            /\ getCurrentStep(context).stage = stage
            /\ Slot(context', stage) = agentResult.data]_vars

C34_Witness ==
  /\ pc = "loop"
  /\ context.iterationCount = 1
  /\ getCurrentStep(context).stage = IMPLEMENTATION
  /\ getCurrentStep(context).status = FAILED
  /\ getCurrentStep(context).result = Output(IMPLEMENTATION)
  /\ context.implementationResult = Output(IMPLEMENTATION)
  /\ Len(context.errors) = 1

\* C35: while executeWorkflow runs its loop, after initializeWorkflow and
\* before finalizeWorkflow, the currentStage field of the run state is the
\* stage of the step at the cursor.
C35_Claim ==
  (pc \notin { "idle", "returned" } /\ getCurrentStep(context) # Undefined)
    => context.currentStage = getCurrentStep(context).stage

\* C36: a step whose status is completed carries no error message: the error
\* of an earlier failed execution is gone once the step has succeeded.
C36_Claim ==
  \A i \in 1..Len(context.workflow) :
    context.workflow[i].status = COMPLETED => context.workflow[i].error = NoMessage

====
